---- MODULE Spec2Model ----
(***************************************************************************)
(* A model of react-webworker's <WebWorker> component (src/src/index.js,   *)
(* the current version, lines 125-253): one component instance (the        *)
(* Bridge), the worker handle it attaches to, and React's setState queue.  *)
(*                                                                         *)
(* React is the environment.  setState(update, callback) enqueues the      *)
(* update; outside a batch React commits at once (apply every queued       *)
(* update in order, then run the callbacks in order), inside a batch (a    *)
(* React event handler) it commits when the batch ends.  setState on an    *)
(* unmounted component does nothing, and unmounting drops what is queued.  *)
(***************************************************************************)
EXTENDS Integers, Sequences, FiniteSets, TLC

\* Bounds of the model.
MaxOps == 2        \* message events + error events + postMessage calls (one more in SpecLongRun)
MaxTime == 2       \* the clock runs over 1..MaxTime

\* JavaScript's undefined, and an undefined Date-valued field.
Undefined == "undefined"
NoDate == 0

NotInitialized == "Worker not initialized"
TypeError == "TypeError"
NoError == "none"

\* The parser and serializer of the tests and the README: JSON.parse and
\* JSON.stringify, on the JSON texts of two strings.
JSONTexts == {"\"foo\"", "\"bar\""}
JSONValues == {"foo", "bar"}

JSONparse(text) ==
    CASE text = "\"foo\"" -> "foo"
      [] text = "\"bar\"" -> "bar"

JSONstringify(value) ==
    CASE value = "foo" -> "\"foo\""
      [] value = "bar" -> "\"bar\""

\* What the `worker` prop may hold: nothing, a Worker, a ServiceWorker, a
\* ServiceWorkerContainer with or without a controller, or a bare object
\* without onmessage and postMessage (the tests' { terminate }).
WorkerKinds == {"none", "Worker", "ServiceWorker", "Container", "IdleContainer", "Bare"}
OptionsObject == "options"

\* The `state` a service worker starts with: the tests' mock has none, a real
\* one is not yet active.
InitialServiceWorkerStates(kind) ==
    CASE kind = "ServiceWorker" -> {Undefined, "installing"}
      [] kind = "Container" -> {"installing"}
      [] OTHER -> {Undefined}

VARIABLES
    props,           \* this.props, fixed for the life of the instance
    lifecycle,       \* React's view: "constructed" | "mounted" | "failed" | "unmounted"
    mounted,         \* this.mounted
    worker,          \* this.worker: Undefined | "internal" | "custom" | "controller"
    messageChannel,  \* this.messageChannel is set
    handlers,        \* where onMessage/onError are bound: "none" | "worker" | "port1"
    swState,         \* the `state` property of the service worker behind props.worker
    state,           \* this.state
    queue,           \* React's queue of pending setState updates
    batching,        \* React is inside a batch
    now,             \* the clock read by new Date()
    budget,          \* how many message, error and send calls this run makes at most
    log,             \* every call made on the instance, with what it threw
    callbacks,       \* invocations of props.onMessage / props.onError
    posted,          \* invocations of the handle's postMessage
    constructed,     \* invocations of new window.Worker
    channels,        \* invocations of new window.MessageChannel
    terminated,      \* invocations of terminate, by handle
    published,       \* the object last given to <Provider value=...>, by identity
    outside,         \* the last helper rendered outside any <WebWorker>, and what it returned
    shared           \* two instances given one worker: its slots, the instances, its events

vars == <<props, lifecycle, mounted, worker, messageChannel, handlers, swState, state,
          queue, batching, now, budget, log, callbacks, posted, constructed, channels, terminated,
          published, outside, shared>>

-----------------------------------------------------------------------------
\* The component's own code.

\* A variant in which the constructor stamps updatedAt.
getInitialStateStamped ==
    [messages |-> <<>>, errors |-> <<>>, data |-> Undefined, error |-> Undefined,
     updatedAt |-> 1, lastPostAt |-> NoDate]

getInitialState ==
    [messages |-> <<>>, errors |-> <<>>, data |-> Undefined, error |-> Undefined,
     updatedAt |-> NoDate, lastPostAt |-> NoDate]

\* const data = this.props.parser ? this.props.parser(message.data) : message.data
ParsedData(p, raw) == IF p.parser THEN JSONparse(raw) ELSE raw

\* A variant that sends the payload as it is given.
SerializedVerbatim(p, data) == data

\* const { serializer = x => x } = this.props ; serializer(data)
Serialized(p, data) == IF p.serializer THEN JSONstringify(data) ELSE data

\* The message payloads the worker may deliver: any the parser is defined on.
RawPayloads(p) == IF p.parser THEN JSONTexts ELSE {"\"foo\"", Undefined}
ErrorValues == {"oops", Undefined}
SendPayloads == JSONValues

\* A variant that keeps the latest message only.
onMessageUpdaterLatestOnly(s, data, date) ==
    [s EXCEPT !.data = data,
              !.error = Undefined,
              !.messages = <<[data |-> data, date |-> date]>>,
              !.updatedAt = date]

\* A variant that leaves the last error in place.
onMessageUpdaterKeepsError(s, data, date) ==
    [s EXCEPT !.data = data,
              !.messages = Append(s.messages, [data |-> data, date |-> date]),
              !.updatedAt = date]

\* state => ({ data, error: undefined, messages: state.messages.concat({ data, date }), updatedAt: date })
onMessageUpdater(s, data, date) ==
    [s EXCEPT !.data = data,
              !.error = Undefined,
              !.messages = Append(s.messages, [data |-> data, date |-> date]),
              !.updatedAt = date]

\* A variant that does not count an error as an update.
onErrorUpdaterWithoutUpdatedAt(s, error, date) ==
    [s EXCEPT !.error = error,
              !.errors = Append(s.errors, [error |-> error, date |-> date])]

\* A variant that stamps the entry with the time of the update before it.
onErrorUpdaterStampedWithUpdatedAt(s, error, date) ==
    [s EXCEPT !.error = error,
              !.errors = Append(s.errors, [error |-> error, date |-> s.updatedAt]),
              !.updatedAt = date]

\* A variant that clears the last data, as a message clears the last error.
onErrorUpdaterClearsData(s, error, date) ==
    [s EXCEPT !.data = Undefined,
              !.error = error,
              !.errors = Append(s.errors, [error |-> error, date |-> date]),
              !.updatedAt = date]

\* state => ({ error, errors: state.errors.concat({ error, date }), updatedAt: date })
onErrorUpdater(s, error, date) ==
    [s EXCEPT !.error = error,
              !.errors = Append(s.errors, [error |-> error, date |-> date]),
              !.updatedAt = date]

\* A variant in which a send clears the last error.
postMessageUpdateClearsError(s, date) == [s EXCEPT !.lastPostAt = date, !.error = Undefined]

\* A variant that counts a send as an update.
postMessageUpdateTouchesUpdatedAt(s, date) == [s EXCEPT !.lastPostAt = date, !.updatedAt = date]

\* { lastPostAt: new Date() }
postMessageUpdate(s, date) == [s EXCEPT !.lastPostAt = date]

\* One queued setState update applied to the state.
ApplyUpdate(s, u) ==
    CASE u.kind = "message" -> onMessageUpdater(s, u.value, u.date)
      [] u.kind = "error" -> onErrorUpdater(s, u.value, u.date)
      [] u.kind = "post" -> postMessageUpdate(s, u.date)

\* A variant in which every update is computed from the state read when the
\* batch began (setState given an object built from this.state): the last wins.
ReduceFromStaleState(s, q) == IF q = <<>> THEN s ELSE ApplyUpdate(s, q[Len(q)])

\* Functional updaters: each is given the state the one before it produced.
RECURSIVE Reduce(_, _)
Reduce(s, q) == IF q = <<>> THEN s ELSE Reduce(ApplyUpdate(s, Head(q)), Tail(q))

\* A variant in which the callbacks run ahead of the update.
StateBeforeCommit(s, q) == s

\* The state a setState callback runs against: React runs the callbacks of a
\* commit after every update of the commit has been applied.
StateSeenByCallbacks(s, q) == Reduce(s, q)

\* () => this.props.onMessage && this.props.onMessage(data)
onMessageCallback(p, data, seen) ==
    IF p.onMessage
    THEN <<[cb |-> "onMessage", arg |-> data,
            messages |-> Len(seen.messages), errors |-> Len(seen.errors)]>>
    ELSE <<>>

\* A variant that reads the error back from the state instead of the event.
onErrorCallbackReadsState(p, error, seen) ==
    IF p.onError
    THEN <<[cb |-> "onError", arg |-> seen.error,
            messages |-> Len(seen.messages), errors |-> Len(seen.errors)]>>
    ELSE <<>>

\* () => this.props.onError && this.props.onError(error)
onErrorCallback(p, error, seen) ==
    IF p.onError
    THEN <<[cb |-> "onError", arg |-> error,
            messages |-> Len(seen.messages), errors |-> Len(seen.errors)]>>
    ELSE <<>>

\* A variant that never hands port2 over.
postMessageCallbackWithoutPort(p, w, channel, data, seen) ==
    <<[to |-> w, payload |-> Serialized(p, data), transfer |-> <<>>,
       lastPostAt |-> seen.lastPostAt]>>

\* () => this.messageChannel ? postMessage.call(this.worker, serializer(data), [port2])
\*                            : postMessage.call(this.worker, serializer(data))
postMessageCallback(p, w, channel, data, seen) ==
    <<[to |-> w, payload |-> Serialized(p, data),
       transfer |-> IF channel THEN <<"port2">> ELSE <<>>,
       lastPostAt |-> seen.lastPostAt]>>

RECURSIVE Notifications(_, _, _)
Notifications(p, q, seen) ==
    IF q = <<>> THEN <<>>
    ELSE (CASE Head(q).kind = "message" -> onMessageCallback(p, Head(q).value, seen)
            [] Head(q).kind = "error" -> onErrorCallback(p, Head(q).value, seen)
            [] Head(q).kind = "post" -> <<>>)
         \o Notifications(p, Tail(q), seen)

\* A variant that runs the callbacks of a commit newest first.
RECURSIVE DispatchesNewestFirst(_, _, _, _, _)
DispatchesNewestFirst(p, w, channel, q, seen) ==
    IF q = <<>> THEN <<>>
    ELSE DispatchesNewestFirst(p, w, channel, Tail(q), seen)
         \o (IF Head(q).kind = "post"
             THEN postMessageCallback(p, w, channel, Head(q).value, seen)
             ELSE <<>>)

RECURSIVE Dispatches(_, _, _, _, _)
Dispatches(p, w, channel, q, seen) ==
    IF q = <<>> THEN <<>>
    ELSE (IF Head(q).kind = "post"
          THEN postMessageCallback(p, w, channel, Head(q).value, seen)
          ELSE <<>>)
         \o Dispatches(p, w, channel, Tail(q), seen)

\* url ? new window.Worker(url, options) : worker.controller || worker
ResolvedHandle(p) ==
    IF p.url THEN "internal"
    ELSE IF p.worker = "Container" THEN "controller"
    ELSE "custom"

\* What kind of object a handle is.
KindOf(p, w) ==
    CASE w = "internal" -> "Worker"
      [] w = "controller" -> "ServiceWorker"
      [] w = "custom" -> p.worker
      [] OTHER -> "none"

\* "onmessage" in this.worker
HasOnmessage(kind) == kind \in {"Worker", "IdleContainer"}

\* A variant without the check.
HasPostMessageUnchecked(kind) == TRUE

\* const { postMessage } = this.worker || {} ; the handle's postMessage, if any
HasPostMessage(kind) == kind \in {"Worker", "ServiceWorker"}

\* this.worker.state
HandleState(p, w, sw) == IF KindOf(p, w) = "ServiceWorker" THEN sw ELSE Undefined

\* A variant that never looks at this.worker.state.
InactiveNever(p, w, sw) == FALSE

\* this.worker.state && this.worker.state !== "activated"
Inactive(p, w, sw) == HandleState(p, w, sw) # Undefined /\ HandleState(p, w, sw) # "activated"

\* this.props.worker || this.worker.terminate()
TerminatesOnUnmount(p) == p.worker = "none"

\* What a helper's Consumer is given. React.createContext() names no default
\* value, so outside a <Provider> the Consumer is given undefined; inside it
\* is given the Provider's value, this.state of the <WebWorker>.
DefaultContext == [provided |-> FALSE]
ProvidedContext(s) == [provided |-> TRUE, state |-> s]

\* What a helper returns: null, its children (for a function, the result of
\* calling it with the arguments given), or a TypeError thrown by reading a
\* property of undefined.
Null == [out |-> "null", given |-> <<>>]
Thrown == [out |-> "throw", given |-> <<TypeError>>]
ChildrenKinds == {"function", "node", "none"}

\* typeof children === "function" ? children(...) : children || null
Children(children, arguments) ==
    IF children = "function" THEN [out |-> "function", given |-> arguments]
    ELSE IF children = "node" THEN [out |-> "node", given |-> <<>>]
    ELSE Null

\* A variant of Pending that shows until there is data, persist or not.
PendingUntilData(context, persist, children) ==
    IF ~context.provided THEN Thrown
    ELSE IF context.state.data # Undefined THEN Null
    ELSE Children(children, <<context.state>>)

\* A variant of Pending without the persist prop.
PendingWithoutPersist(context, persist, children) ==
    IF ~context.provided THEN Thrown
    ELSE IF context.state.data # Undefined THEN Null
    ELSE IF context.state.error # Undefined THEN Null
    ELSE Children(children, <<context.state>>)

\* <WebWorker.Pending persist>
Pending(context, persist, children) ==
    IF ~context.provided THEN Thrown
    ELSE IF context.state.data # Undefined THEN Null
    ELSE IF ~persist /\ context.state.error # Undefined THEN Null
    ELSE Children(children, <<context.state>>)

\* A variant of Data that hands its children the first message received.
DataOfFirstMessage(context, children) ==
    IF ~context.provided THEN Thrown
    ELSE IF context.state.data = Undefined THEN Null
    ELSE Children(children, <<context.state.messages[1].data, context.state>>)

\* <WebWorker.Data>
Data(context, children) ==
    IF ~context.provided THEN Thrown
    ELSE IF context.state.data = Undefined THEN Null
    ELSE Children(children, <<context.state.data, context.state>>)

\* <WebWorker.Error>
Error(context, children) ==
    IF ~context.provided THEN Thrown
    ELSE IF context.state.error = Undefined THEN Null
    ELSE Children(children, <<context.state.error, context.state>>)

\* The identity of the object this.state: React builds a new state object in
\* every commit that applies an update, and every update adds an entry to
\* messages or errors or is followed by one dispatch, so their number tells
\* the state objects apart.
StateObject(s, dispatched) == Len(s.messages) + Len(s.errors) + Len(dispatched)

\* A variant that builds the value in render(), a new object every time
\* ({ ...this.state, postMessage: this.postMessage }).
ProviderValueBuiltInRender(stateObject, last) == last + 1

\* render(): <Provider value={this.state}>
ProviderValue(stateObject, last) == stateObject

\* Two instances of the component, and no instance.
Instances == {1, 2}
NoInstance == 0

\* A variant in which a slot that is taken is left to its holder.
SlotAssignedIfFree(slot, i) == IF slot = NoInstance THEN i ELSE slot

\* this.worker.onmessage = this.onMessage (and onerror): what the slot holds
\* after instance i assigns its handler to it.
SlotAssigned(slot, i) == i

-----------------------------------------------------------------------------
\* React.

\* A commit: every queued update applied in order, then every callback in order.
Commit(q) ==
    LET seen == StateSeenByCallbacks(state, q) IN
    /\ state' = Reduce(state, q)
    /\ callbacks' = callbacks \o Notifications(props, q, seen)
    /\ posted' = posted \o Dispatches(props, worker, messageChannel, q, seen)
    /\ queue' = <<>>
    /\ published' = IF q = <<>> THEN published
                    ELSE ProviderValue(StateObject(state', posted'), published)

\* A variant that takes updates for an instance that is not mounted.
setStateOnAnyInstance(u) ==
    IF batching
    THEN queue' = Append(queue, u) /\ UNCHANGED <<state, callbacks, posted, published>>
    ELSE Commit(Append(queue, u))

\* this.setState(update, callback)
setState(u) ==
    IF lifecycle # "mounted"
    THEN UNCHANGED <<state, queue, callbacks, posted, published>>
    ELSE IF batching
         THEN queue' = Append(queue, u) /\ UNCHANGED <<state, callbacks, posted, published>>
         ELSE Commit(Append(queue, u))

\* The calls the run's budget counts.
Ops == {"message", "error", "send"}
NOps == Cardinality({i \in DOMAIN log : log[i].op \in Ops})

\* A call is logged with whether the instance was mounted and what the call
\* threw to its caller; a message, error or send also with the time, and a
\* send with the service worker's state.
Called(op, arg, threw) ==
    log' = Append(log, [op |-> op, arg |-> arg, live |-> mounted, threw |-> threw,
                        at |-> IF op \in Ops THEN now ELSE NoDate,
                        sw |-> IF op = "send" THEN swState ELSE Undefined])

-----------------------------------------------------------------------------
\* The operations.

\* The instance as constructed, with any props.
Construction ==
    /\ props \in [url : BOOLEAN, options : {Undefined, OptionsObject}, worker : WorkerKinds,
                  parser : BOOLEAN, serializer : BOOLEAN,
                  onMessage : BOOLEAN, onError : BOOLEAN, someProp : {FALSE}]
    /\ props.options = OptionsObject <=> props.url
    /\ props.url => props.worker \in {"none", "Worker"}
    /\ swState \in InitialServiceWorkerStates(props.worker)
    /\ lifecycle = "constructed"
    /\ mounted = FALSE
    /\ worker = Undefined
    /\ messageChannel = FALSE
    /\ handlers = "none"
    /\ state = getInitialState
    /\ queue = <<>>
    /\ batching = FALSE
    /\ now = 1
    /\ log = <<>>
    /\ callbacks = <<>>
    /\ posted = <<>>
    /\ constructed = <<>>
    /\ channels = 0
    /\ terminated = <<>>
    /\ published = ProviderValue(StateObject(getInitialState, <<>>), 0)
    /\ outside = [helper |-> "none", persist |-> FALSE, children |-> "none", returned |-> Null]
    /\ shared = [onmessage |-> NoInstance, onerror |-> NoInstance,
                 instances |-> [i \in Instances |->
                                  [lifecycle |-> "constructed", mounted |-> FALSE,
                                   state |-> getInitialState, callbacks |-> <<>>]],
                 order |-> <<>>, fired |-> <<>>]

Init == Construction /\ budget = MaxOps

\* new window.Worker(url, options)
WorkerArgumentsWithoutOptions(p) == [url |-> "/worker.js", options |-> Undefined]

WorkerArguments(p) == [url |-> "/worker.js", options |-> p.options]

\* A variant in which an instance that was unmounted can be mounted again.
componentDidMountAgain ==
    /\ lifecycle \in {"constructed", "unmounted"}
    /\ IF ~props.url /\ props.worker = "none"
       THEN \* worker.controller on undefined
            /\ lifecycle' = "failed"
            /\ Called("mount", Undefined, TypeError)
            /\ UNCHANGED <<mounted, worker, messageChannel, handlers, constructed, channels>>
       ELSE /\ worker' = ResolvedHandle(props)
            /\ constructed' = IF props.url
                              THEN Append(constructed, WorkerArguments(props))
                              ELSE constructed
            /\ IF HasOnmessage(KindOf(props, ResolvedHandle(props)))
               THEN handlers' = "worker" /\ UNCHANGED <<messageChannel, channels>>
               ELSE handlers' = "port1" /\ messageChannel' = TRUE /\ channels' = channels + 1
            /\ mounted' = TRUE
            /\ lifecycle' = "mounted"
            /\ Called("mount", Undefined, NoError)
    /\ UNCHANGED <<shared, outside, budget, props, swState, state, queue, batching, now, callbacks, posted, terminated,
                   published>>

\* componentDidMount()
componentDidMount ==
    /\ lifecycle = "constructed"
    /\ IF ~props.url /\ props.worker = "none"
       THEN \* worker.controller on undefined
            /\ lifecycle' = "failed"
            /\ Called("mount", Undefined, TypeError)
            /\ UNCHANGED <<mounted, worker, messageChannel, handlers, constructed, channels>>
       ELSE /\ worker' = ResolvedHandle(props)
            /\ constructed' = IF props.url
                              THEN Append(constructed, WorkerArguments(props))
                              ELSE constructed
            /\ IF HasOnmessage(KindOf(props, ResolvedHandle(props)))
               THEN handlers' = "worker" /\ UNCHANGED <<messageChannel, channels>>
               ELSE handlers' = "port1" /\ messageChannel' = TRUE /\ channels' = channels + 1
            /\ mounted' = TRUE
            /\ lifecycle' = "mounted"
            /\ Called("mount", Undefined, NoError)
    /\ UNCHANGED <<shared, outside, budget, props, swState, state, queue, batching, now, callbacks, posted, terminated,
                   published>>

\* componentWillUnmount(); React drops the instance's queued updates.
componentWillUnmount ==
    /\ lifecycle \in {"mounted", "failed"}
    /\ mounted' = FALSE
    /\ lifecycle' = "unmounted"
    /\ IF TerminatesOnUnmount(props)
       THEN IF worker = Undefined
            THEN Called("unmount", Undefined, TypeError) /\ UNCHANGED terminated
            ELSE Called("unmount", Undefined, NoError) /\ terminated' = Append(terminated, worker)
       ELSE Called("unmount", Undefined, NoError) /\ UNCHANGED terminated
    /\ queue' = <<>>
    /\ batching' = FALSE
    /\ UNCHANGED <<shared, outside, budget, props, worker, messageChannel, handlers, swState, state, now,
                   callbacks, posted, constructed, channels, published>>

\* A variant that notifies props.onMessage itself, ahead of the mounted guard.
onMessageNotifiesBeforeGuard(raw) ==
    /\ handlers # "none"
    /\ NOps < budget
    /\ Called("message", raw, NoError)
    /\ IF ~mounted
       THEN /\ callbacks' = callbacks \o onMessageCallback(props, ParsedData(props, raw), state)
            /\ UNCHANGED <<state, queue, posted, published>>
       ELSE setState([kind |-> "message", value |-> ParsedData(props, raw), date |-> now])
    /\ UNCHANGED <<shared, outside, budget, props, lifecycle, mounted, worker, messageChannel, handlers, swState,
                   batching, now, constructed, channels, terminated>>

\* onMessage = message => ...   (the worker, or port1, delivers a message event)
onMessage(raw) ==
    /\ handlers # "none"
    /\ NOps < budget
    /\ Called("message", raw, NoError)
    /\ IF ~mounted
       THEN UNCHANGED <<state, queue, callbacks, posted, published>>
       ELSE setState([kind |-> "message", value |-> ParsedData(props, raw), date |-> now])
    /\ UNCHANGED <<shared, outside, budget, props, lifecycle, mounted, worker, messageChannel, handlers, swState,
                   batching, now, constructed, channels, terminated>>

\* A variant that gives the error to props.parser as onMessage gives it the
\* payload: JSON.parse throws a SyntaxError on what is not JSON text.
onErrorParsed(error) ==
    /\ handlers # "none"
    /\ NOps < budget
    /\ IF ~mounted
       THEN Called("error", error, NoError)
            /\ UNCHANGED <<state, queue, callbacks, posted, published>>
       ELSE IF props.parser /\ error \notin JSONTexts
            THEN Called("error", error, "SyntaxError")
                 /\ UNCHANGED <<state, queue, callbacks, posted, published>>
            ELSE Called("error", error, NoError)
                 /\ setState([kind |-> "error", value |-> ParsedData(props, error), date |-> now])
    /\ UNCHANGED <<shared, outside, budget, props, lifecycle, mounted, worker, messageChannel, handlers, swState,
                   batching, now, constructed, channels, terminated>>

\* onError = ({ error }) => ...   (the worker, or port1, delivers an error event)
onError(error) ==
    /\ handlers # "none"
    /\ NOps < budget
    /\ Called("error", error, NoError)
    /\ IF ~mounted
       THEN UNCHANGED <<state, queue, callbacks, posted, published>>
       ELSE setState([kind |-> "error", value |-> error, date |-> now])
    /\ UNCHANGED <<shared, outside, budget, props, lifecycle, mounted, worker, messageChannel, handlers, swState,
                   batching, now, constructed, channels, terminated>>

\* postMessage = data => ...
postMessage(data) ==
    /\ NOps < budget
    /\ IF ~HasPostMessage(KindOf(props, worker))
       THEN \* if (!postMessage) throw new Error("Worker not initialized")
            /\ Called("send", data, NotInitialized)
            /\ UNCHANGED <<state, queue, callbacks, posted, published>>
       ELSE IF Inactive(props, worker, swState)
            THEN \* return
                 /\ Called("send", data, NoError)
                 /\ UNCHANGED <<state, queue, callbacks, posted, published>>
            ELSE /\ Called("send", data, NoError)
                 /\ setState([kind |-> "post", value |-> data, date |-> now])
    /\ UNCHANGED <<shared, outside, budget, props, lifecycle, mounted, worker, messageChannel, handlers, swState,
                   batching, now, constructed, channels, terminated>>

\* The environment: a React batch begins (an event handler is entered) ...
BeginBatch ==
    /\ lifecycle = "mounted"
    /\ ~batching
    /\ batching' = TRUE
    /\ UNCHANGED <<shared, outside, budget, props, lifecycle, mounted, worker, messageChannel, handlers, swState,
                   state, queue, now, log, callbacks, posted, constructed, channels, terminated,
                   published>>

\* ... and ends: React commits what the batch queued.
EndBatch ==
    /\ batching
    /\ batching' = FALSE
    /\ Commit(queue)
    /\ UNCHANGED <<shared, outside, budget, props, lifecycle, mounted, worker, messageChannel, handlers, swState,
                   now, log, constructed, channels, terminated>>

\* new Date() reads the wall clock, which runs forward and which the system
\* can set back: between two calls it comes to read a later time or an earlier
\* one.  The clock is seen only through the `at` of a call, so it changes only
\* after a call stamped with the current time, while another can follow.
Tick(t) ==
    /\ t \in {now - 1, now + 1}
    /\ NOps < budget
    /\ \E i \in DOMAIN log : log[i].op \in Ops /\ log[i].at = now
    /\ now' = t
    /\ UNCHANGED <<shared, outside, budget, props, lifecycle, mounted, worker, messageChannel, handlers, swState,
                   state, queue, batching, log, callbacks, posted, constructed, channels,
                   terminated, published>>

\* The service worker becomes active.
Activate ==
    /\ swState = "installing"
    /\ swState' = "activated"
    /\ UNCHANGED <<shared, outside, budget, props, lifecycle, mounted, worker, messageChannel, handlers,
                   state, queue, batching, now, log, callbacks, posted, constructed,
                   channels, terminated, published>>

Next ==
    \/ componentDidMount
    \/ componentWillUnmount
    \/ \E raw \in RawPayloads(props) : onMessage(raw)
    \/ \E error \in ErrorValues : onError(error)
    \/ \E data \in SendPayloads : postMessage(data)
    \/ BeginBatch
    \/ EndBatch
    \/ \E t \in 1..MaxTime : Tick(t)
    \/ Activate

Spec == Init /\ [][Next]_vars

\* The parent re-renders the mounted <WebWorker> with an unrelated prop
\* changed: render() runs again, nothing else of the component does.
Rerender ==
    /\ lifecycle = "mounted"
    /\ ~batching
    /\ props' = [props EXCEPT !.someProp = ~props.someProp]
    /\ published' = ProviderValue(StateObject(state, posted), published)
    /\ UNCHANGED <<budget, lifecycle, mounted, worker, messageChannel, handlers, swState, state,
                   queue, batching, now, log, callbacks, posted, constructed, channels,
                   terminated, outside, shared>>

\* A handle made from a url is a Worker and has no Service Worker state, so
\* Activate has no part here.
NextWithRerender ==
    \/ componentDidMount
    \/ componentWillUnmount
    \/ \E raw \in RawPayloads(props) : onMessage(raw)
    \/ \E error \in ErrorValues : onError(error)
    \/ \E data \in SendPayloads : postMessage(data)
    \/ BeginBatch
    \/ EndBatch
    \/ \E t \in 1..MaxTime : Tick(t)
    \/ Rerender

\* <WebWorker url="/worker.js" ...> as the tests mount it.
InitWithUrl == Init /\ props.url

\* The component configured with a url, with re-renders by its parent.
SpecWithRerender == InitWithUrl /\ [][NextWithRerender]_vars

\* Runs of one call more, of <WebWorker url="/worker.js" ...> without
\* re-renders: two sends with an event among them, or three events with the
\* clock set back between them.
NextLongRun ==
    \/ componentDidMount
    \/ componentWillUnmount
    \/ \E raw \in RawPayloads(props) : onMessage(raw)
    \/ \E error \in ErrorValues : onError(error)
    \/ \E data \in SendPayloads : postMessage(data)
    \/ BeginBatch
    \/ EndBatch
    \/ \E t \in 1..MaxTime : Tick(t)

InitLongRun ==
    /\ Construction
    /\ budget = MaxOps + 1
    /\ props.url /\ props.worker = "none"
    /\ ~props.onMessage /\ ~props.onError

SpecLongRun == InitLongRun /\ [][NextLongRun]_vars

\* A helper rendered with no <WebWorker> above it: its Consumer is given the
\* context's default.
RenderOutside(helper, persist, children) ==
    /\ outside' = [helper |-> helper, persist |-> persist, children |-> children,
                   returned |-> CASE helper = "Pending" -> Pending(DefaultContext, persist, children)
                                  [] helper = "Data" -> Data(DefaultContext, children)
                                  [] helper = "Error" -> Error(DefaultContext, children)]
    /\ UNCHANGED <<budget, props, lifecycle, mounted, worker, messageChannel, handlers, swState, state,
                   queue, batching, now, log, callbacks, posted, constructed, channels,
                   terminated, published, shared>>

NextOutside ==
    \/ \E persist \in BOOLEAN, children \in ChildrenKinds :
          RenderOutside("Pending", persist, children)
    \/ \E children \in ChildrenKinds : RenderOutside("Data", FALSE, children)
    \/ \E children \in ChildrenKinds : RenderOutside("Error", FALSE, children)

\* Helpers rendered apart from the component, whatever its props.
SpecOutside == Init /\ [][NextOutside]_vars

\* Two instances of <WebWorker worker={worker}> given the same Worker, each
\* running the component's code on its own state; the worker's events go to
\* the handlers its slots hold.
single == <<props, lifecycle, mounted, worker, messageChannel, handlers, swState, state,
            queue, batching, now, budget, log, callbacks, posted, constructed, channels, terminated,
            published, outside>>

\* componentDidMount() of instance i
MountShared(i) ==
    /\ shared.instances[i].lifecycle = "constructed"
    /\ shared' = [shared EXCEPT !.onmessage = SlotAssigned(shared.onmessage, i),
                                !.onerror = SlotAssigned(shared.onerror, i),
                                !.instances[i].lifecycle = "mounted",
                                !.instances[i].mounted = TRUE,
                                !.order = Append(shared.order, i)]
    /\ UNCHANGED single

\* componentWillUnmount() of instance i: the worker is the caller's, it is
\* not terminated, and the slots are left as they are.
UnmountShared(i) ==
    /\ shared.instances[i].lifecycle = "mounted"
    /\ shared' = [shared EXCEPT !.instances[i].lifecycle = "unmounted",
                                !.instances[i].mounted = FALSE]
    /\ UNCHANGED single

\* What the events fired so far record: who was attached and who attached last.
Fired(kind, value) ==
    Append(shared.fired,
           [kind |-> kind, value |-> value,
            attached |-> {i \in Instances : shared.instances[i].lifecycle = "mounted"},
            latest |-> IF shared.order = <<>> THEN NoInstance
                       ELSE shared.order[Len(shared.order)]])

\* The worker fires a message event: worker.onmessage({ data: raw })
FireMessage(raw) ==
    /\ Len(shared.fired) < MaxOps
    /\ LET i == shared.onmessage IN
       IF i = NoInstance \/ ~shared.instances[i].mounted
       THEN shared' = [shared EXCEPT !.fired = Fired("message", raw)]
       ELSE LET next == onMessageUpdater(shared.instances[i].state, ParsedData(props, raw), now)
            IN shared' = [shared EXCEPT
                   !.fired = Fired("message", raw),
                   !.instances[i].state = next,
                   !.instances[i].callbacks =
                       @ \o onMessageCallback(props, ParsedData(props, raw), next)]
    /\ UNCHANGED single

\* The worker fires an error event: worker.onerror({ error })
FireError(error) ==
    /\ Len(shared.fired) < MaxOps
    /\ LET i == shared.onerror IN
       IF i = NoInstance \/ ~shared.instances[i].mounted
       THEN shared' = [shared EXCEPT !.fired = Fired("error", error)]
       ELSE LET next == onErrorUpdater(shared.instances[i].state, error, now)
            IN shared' = [shared EXCEPT
                   !.fired = Fired("error", error),
                   !.instances[i].state = next,
                   !.instances[i].callbacks = @ \o onErrorCallback(props, error, next)]
    /\ UNCHANGED single

NextShared ==
    \/ \E i \in Instances : MountShared(i)
    \/ \E i \in Instances : UnmountShared(i)
    \/ \E raw \in RawPayloads(props) : FireMessage(raw)
    \/ \E error \in ErrorValues : FireError(error)

\* Both instances have the props <WebWorker worker={worker} ...>, the worker
\* being a Worker, which has the slots onmessage and onerror.
InitShared == Init /\ ~props.url /\ props.worker = "Worker"

SpecShared == InitShared /\ [][NextShared]_vars

-----------------------------------------------------------------------------
\* What the claims are stated over: the calls of the log, and what the parser
\* and the serializer are meant to produce.

LiveCalls(ops) == SelectSeq(log, LAMBDA e : e.op \in ops /\ e.live)
Queued(kinds) == SelectSeq(queue, LAMBDA u : u.kind \in kinds)
ArgsOf(calls) == [i \in 1..Len(calls) |-> calls[i].arg]
ValuesOf(updates) == [i \in 1..Len(updates) |-> updates[i].value]
DataOf(messages) == [i \in 1..Len(messages) |-> messages[i].data]
ErrorsOf(errors) == [i \in 1..Len(errors) |-> errors[i].error]
ExpectedData(raw) == IF props.parser THEN JSONparse(raw) ELSE raw
ExpectedPayload(data) == IF props.serializer THEN JSONstringify(data) ELSE data
LastOf(seq) == seq[Len(seq)]

\* The message-or-error events whose state update has been committed: while
\* the instance is mounted, all those delivered but the ones still queued.
CommittedEvents ==
    SubSeq(LiveCalls({"message", "error"}), 1,
           Len(LiveCalls({"message", "error"})) - Len(Queued({"message", "error"})))

\* C1: while the Bridge is attached, the data of `messages` followed by the
\* data of the message updates still queued is the parsed payload of every
\* message event delivered, in delivery order; once none is queued `messages`
\* has one entry per event and `data` is the parsed payload of the last.
C1_MessagesInDeliveryOrder ==
    mounted =>
        LET delivered == ArgsOf(LiveCalls({"message"}))
            expected == [i \in 1..Len(delivered) |-> ExpectedData(delivered[i])]
        IN /\ DataOf(state.messages) \o ValuesOf(Queued({"message"})) = expected
           /\ Queued({"message"}) = <<>> =>
                 /\ Len(state.messages) = Len(delivered)
                 /\ state.data = IF expected = <<>> THEN Undefined ELSE LastOf(expected)

\* Two messages delivered in one batch, parsed, committed together.
C1_Witness ==
    /\ mounted /\ props.parser /\ props.onMessage
    /\ DataOf(state.messages) = <<"foo", "bar">>
    /\ state.data = "bar"
    /\ Len(callbacks) = 2 /\ callbacks[1].messages = 2

\* C2: while the Bridge is attached, `errors` followed by the error updates
\* still queued is every error event delivered, in delivery order, and
\* `error` is the error of the last committed event if that is an error event
\* and absent if it is a message event (or there is none).
C2_ErrorsInDeliveryOrder ==
    mounted =>
        /\ ErrorsOf(state.errors) \o ValuesOf(Queued({"error"})) = ArgsOf(LiveCalls({"error"}))
        /\ state.error = IF CommittedEvents # <<>> /\ LastOf(CommittedEvents).op = "error"
                         THEN LastOf(CommittedEvents).arg
                         ELSE Undefined

\* An error, then a message: the error is cleared and stays in `errors`.
C2_Witness ==
    /\ mounted
    /\ ErrorsOf(state.errors) = <<"oops">>
    /\ Len(state.messages) = 1
    /\ state.error = Undefined

\* C3: a step that delivers an error event, and a commit of a batch that
\* holds error updates and no message update, leave `data` and `messages`
\* as they were.
C3_ErrorKeepsData ==
    [][(\/ /\ Len(log') = Len(log) + 1
           /\ LastOf(log').op = "error"
        \/ /\ queue # <<>> /\ queue' = <<>>
           /\ Queued({"error"}) # <<>>
           /\ Queued({"message"}) = <<>>)
       => /\ state'.data = state.data
          /\ state'.messages = state.messages]_vars

\* A message, then an error: both the last data and the last error are there.
C3_Witness ==
    /\ mounted
    /\ state.data # Undefined
    /\ state.error # Undefined
    /\ Len(state.messages) = 1 /\ Len(state.errors) = 1

\* C4: `updatedAt` is absent until a message or error event has been
\* committed; from then on, while the Bridge is attached, it is the time of
\* the last committed event, which is the date in the last entry of that
\* event's list.  Sends are not events: none changes it.
C4_UpdatedAtIsLastEvent ==
    /\ lifecycle \in {"constructed", "failed"} => state.updatedAt = NoDate
    /\ mounted =>
          IF CommittedEvents = <<>>
          THEN state.updatedAt = NoDate
          ELSE /\ state.updatedAt = LastOf(CommittedEvents).at
               /\ LastOf(CommittedEvents).op = "message" =>
                     LastOf(state.messages).date = state.updatedAt
               /\ LastOf(CommittedEvents).op = "error" =>
                     LastOf(state.errors).date = state.updatedAt

\* A send at time 1, then an event at time 2: updatedAt is the event's time.
C4_Witness ==
    /\ mounted /\ queue = <<>>
    /\ state.lastPostAt = 1
    /\ Len(state.errors) = 1
    /\ state.errors[1].date = MaxTime
    /\ state.updatedAt = MaxTime

\* C5: while no handle is attached every send has thrown "Worker not
\* initialized" to its caller, nothing has been dispatched or queued, and
\* the state, lastPostAt included, is the initial state.
C5_SendBeforeAttachThrows ==
    worker = Undefined =>
        /\ \A i \in DOMAIN log : log[i].op = "send" => log[i].threw = NotInitialized
        /\ state = getInitialState
        /\ posted = <<>>
        /\ queue = <<>>

\* Two sends before the component has mounted.
C5_Witness ==
    /\ lifecycle = "constructed"
    /\ worker = Undefined
    /\ Len(log) = 2
    /\ \A i \in DOMAIN log : log[i].op = "send" /\ log[i].threw = NotInitialized

\* The handle exposes postMessage: a Worker or a ServiceWorker.
ExposesPostMessage ==
    props.url \/ props.worker \in {"Worker", "ServiceWorker", "Container"}

\* The sends made while attached to a handle that exposes postMessage and
\* whose state was absent or "activated".
AcceptedSends ==
    SelectSeq(log, LAMBDA e : /\ e.op = "send" /\ e.live
                              /\ ExposesPostMessage
                              /\ e.sw \in {Undefined, "activated"})

PayloadsOf(dispatches) == [i \in 1..Len(dispatches) |-> dispatches[i].payload]
ExpectedPayloads(calls) == [i \in 1..Len(calls) |-> ExpectedPayload(calls[i].arg)]

\* C6 as claimed: attached to a handle that exposes postMessage, once
\* nothing is queued every send made since attach has been dispatched once,
\* serialized, in order, and lastPostAt is the time of the last, whatever
\* state the handle reported.
C6_EverySendDispatched ==
    (mounted /\ ExposesPostMessage /\ queue = <<>>) =>
        /\ PayloadsOf(posted) = ExpectedPayloads(LiveCalls({"send"}))
        /\ LiveCalls({"send"}) # <<>> => state.lastPostAt = LastOf(LiveCalls({"send"})).at

\* C6 amended: while the Bridge is attached, the payloads dispatched followed
\* by those of the queued sends are the serialized payloads of the sends made
\* while the handle's state was absent or "activated", in order and once
\* each, all to the attached handle; lastPostAt is absent until one is
\* committed and, once none is queued, the time of the last.  A send made
\* while the handle reported another state dispatched nothing.
C6_AcceptedSendsDispatched ==
    mounted =>
        /\ PayloadsOf(posted) \o ExpectedPayloads([i \in 1..Len(Queued({"post"})) |->
                                   [arg |-> Queued({"post"})[i].value]])
             = ExpectedPayloads(AcceptedSends)
        /\ \A i \in DOMAIN posted : posted[i].to = worker
        /\ AcceptedSends = <<>> => state.lastPostAt = NoDate
        /\ (Queued({"post"}) = <<>> /\ AcceptedSends # <<>>) =>
              state.lastPostAt = LastOf(AcceptedSends).at

\* A send ignored while the service worker installs, then one dispatched,
\* serialized, once it is activated.
C6_Witness ==
    /\ mounted /\ props.serializer
    /\ Len(LiveCalls({"send"})) = 2
    /\ Len(AcceptedSends) = 1
    /\ PayloadsOf(posted) = <<"\"foo\"">>
    /\ state.lastPostAt = 2

\* C7 as claimed: after teardown, a handle the Bridge constructed has been
\* terminated, and a handle the caller supplied has not.
C7_TerminatesOwnHandleOnly ==
    (lifecycle = "unmounted" /\ worker # Undefined) =>
        terminated = IF worker = "internal" THEN <<"internal">> ELSE <<>>

\* C8: a message or error event delivered after teardown throws nothing and
\* changes neither the state, nor the queue of updates, nor what has been
\* notified or dispatched.
C8_LateEventsDiscarded ==
    [][(/\ Len(log') = Len(log) + 1
        /\ LastOf(log').op \in {"message", "error"}
        /\ lifecycle = "unmounted")
       => /\ LastOf(log').threw = NoError
          /\ UNCHANGED <<state, queue, callbacks, posted>>]_vars

\* A message received and notified while attached, another after teardown.
C8_Witness ==
    /\ lifecycle = "unmounted"
    /\ props.onMessage
    /\ Len(log) = 4
    /\ log[2].op = "message" /\ log[2].live
    /\ log[4].op = "message" /\ ~log[4].live
    /\ Len(state.messages) = 1
    /\ Len(callbacks) = 1

NotifiedBy(cb) == SelectSeq(callbacks, LAMBDA c : c.cb = cb)

\* C9: props.onMessage has been invoked once per committed message, in
\* order, with its parsed data, each time against a state that already held
\* that message's entry; without the callback nothing is invoked.
C9_OnMessageAfterCommit ==
    IF props.onMessage
    THEN /\ ArgsOf(NotifiedBy("onMessage")) = DataOf(state.messages)
         /\ \A i \in DOMAIN NotifiedBy("onMessage") : NotifiedBy("onMessage")[i].messages >= i
         /\ mounted =>
               LET delivered == ArgsOf(LiveCalls({"message"}))
               IN ArgsOf(NotifiedBy("onMessage")) \o ValuesOf(Queued({"message"}))
                    = [i \in 1..Len(delivered) |-> ExpectedData(delivered[i])]
    ELSE NotifiedBy("onMessage") = <<>>

\* Two messages committed one by one, each notified with its parsed data.
C9_Witness ==
    /\ props.onMessage /\ props.parser
    /\ ArgsOf(callbacks) = <<"bar", "foo">>
    /\ callbacks[1].messages = 1
    /\ callbacks[2].messages = 2

\* C10: no error event has thrown to its caller; while attached every error
\* delivered is in `errors` or queued; props.onError has been invoked once
\* per committed error, in order, with that error, each time against a state
\* that already held its entry; without the callback nothing is invoked.
C10_ErrorsRecordedAndNotified ==
    /\ \A i \in DOMAIN log : log[i].op = "error" => log[i].threw = NoError
    /\ mounted =>
          ErrorsOf(state.errors) \o ValuesOf(Queued({"error"})) = ArgsOf(LiveCalls({"error"}))
    /\ IF props.onError
       THEN /\ ArgsOf(NotifiedBy("onError")) = ErrorsOf(state.errors)
            /\ \A i \in DOMAIN NotifiedBy("onError") : NotifiedBy("onError")[i].errors >= i
       ELSE NotifiedBy("onError") = <<>>

\* Two errors delivered in one batch, both recorded, both notified.
C10_Witness ==
    /\ props.onError
    /\ ErrorsOf(state.errors) = <<"oops", Undefined>>
    /\ ArgsOf(callbacks) = <<"oops", Undefined>>
    /\ callbacks[1].errors = 2

-----------------------------------------------------------------------------
\* C11: props.parser is applied to the payload of every message delivered and
\* to nothing else: with or without a parser, errors and error hold the error
\* events exactly as delivered, and delivering one never throws.
C11_ParserOnlyOnMessages ==
    /\ \A i \in DOMAIN log : log[i].op = "error" => log[i].threw = NoError
    /\ mounted =>
        LET payloads == ArgsOf(LiveCalls({"message"})) IN
        /\ DataOf(state.messages) \o ValuesOf(Queued({"message"}))
               = [i \in 1..Len(payloads) |-> ExpectedData(payloads[i])]
        /\ ErrorsOf(state.errors) \o ValuesOf(Queued({"error"})) = ArgsOf(LiveCalls({"error"}))
        /\ state.error # Undefined =>
               /\ state.errors # <<>>
               /\ state.error = LastOf(state.errors).error
               /\ state.error \in {e \in ErrorValues :
                                     \E i \in DOMAIN log : log[i].op = "error" /\ log[i].arg = e}

\* With a parser: a message recorded parsed, then an error recorded as it came.
C11_Witness ==
    /\ mounted /\ props.parser
    /\ ArgsOf(LiveCalls({"message"})) = <<"\"bar\"">>
    /\ DataOf(state.messages) = <<"bar">>
    /\ ErrorsOf(state.errors) = <<"oops">>
    /\ state.error = "oops"

\* Whether the handle given to the component has an onmessage slot.
ExposesOnmessage == props.url \/ props.worker \in {"Worker", "IdleContainer"}

\* C12: attached to a handle without an onmessage slot, the component has
\* made exactly one MessageChannel, its handlers are on port1 and every
\* dispatch carries the serialized payload and port2; attached to a handle
\* with the slot, it has made no channel, its handlers are on the handle and
\* every dispatch carries the payload alone.
C12_ChannelIffNoOnmessage ==
    /\ lifecycle \in {"constructed", "failed"} => channels = 0 /\ handlers = "none"
    /\ lifecycle \in {"mounted", "unmounted"} /\ worker # Undefined =>
        /\ PayloadsOf(posted) = ExpectedPayloads([i \in 1..Len(posted) |->
                                     AcceptedSends[i]])
        /\ IF ExposesOnmessage
           THEN /\ channels = 0 /\ ~messageChannel
                /\ lifecycle = "mounted" => handlers = "worker"
                /\ \A i \in DOMAIN posted : posted[i].transfer = <<>>
           ELSE /\ channels = 1 /\ messageChannel
                /\ lifecycle = "mounted" => handlers = "port1"
                /\ \A i \in DOMAIN posted : posted[i].transfer = <<"port2">>

\* A Service Worker: one channel, handlers on port1, two sends with port2.
C12_Witness ==
    /\ lifecycle = "mounted" /\ props.worker = "ServiceWorker" /\ props.serializer
    /\ channels = 1 /\ handlers = "port1"
    /\ Len(posted) = 2
    /\ \A i \in DOMAIN posted : posted[i].transfer = <<"port2">> /\ posted[i].to = "custom"

-----------------------------------------------------------------------------
\* The helpers, placed under the <WebWorker> and given content to show.
Content == {"function", "node"}
Renders(returned) == returned.out \in Content
LastMessage == LastOf(LiveCalls({"message"}))

\* C13: Pending shows its content exactly when data is absent and error is
\* absent or persist is set; with persist it shows as long as no message has
\* arrived, whatever errors have, and hides once a message brought data.
C13_PendingIffNoDataAndNoErrorOrPersist ==
    /\ \A persist \in BOOLEAN, children \in Content :
          LET returned == Pending(ProvidedContext(state), persist, children) IN
          /\ Renders(returned) <=>
                 state.data = Undefined /\ (state.error = Undefined \/ persist)
          /\ returned.out # "throw"
          /\ returned.out = "function" => returned.given = <<state>>
    /\ mounted /\ LiveCalls({"message"}) = <<>> =>
          Renders(Pending(ProvidedContext(state), TRUE, "node"))
    /\ (/\ mounted /\ Queued({"message"}) = <<>> /\ LiveCalls({"message"}) # <<>>
        /\ ExpectedData(LastMessage.arg) # Undefined) =>
          ~Renders(Pending(ProvidedContext(state), TRUE, "node"))

\* Two errors and no data: Pending shows with persist and not without.
C13_Witness ==
    /\ mounted
    /\ ErrorsOf(state.errors) = <<"oops", "oops">>
    /\ state.data = Undefined
    /\ Renders(Pending(ProvidedContext(state), TRUE, "function"))
    /\ ~Renders(Pending(ProvidedContext(state), FALSE, "function"))

\* C14 as claimed: without persist, whenever Pending shows its content no
\* message and no error has been received: messages and errors are empty.
\* It fails: index.js:218-219 look at data and error, and a message whose
\* payload is undefined, or an error event without an error, leaves both
\* undefined while messages or errors has an entry.
C14_PendingOnlyBeforeAnyEvent ==
    \A children \in Content :
        Renders(Pending(ProvidedContext(state), FALSE, children)) =>
            state.messages = <<>> /\ state.errors = <<>>

\* C15: Data shows exactly when data is present and hands its children the
\* current data, Error shows exactly when error is present and hands its
\* children the current error; once the last message (error) delivered is
\* committed, the value handed over is that message's parsed payload (that
\* error).
C15_DataAndErrorShowNewest ==
    /\ \A children \in Content :
          LET data == Data(ProvidedContext(state), children)
              error == Error(ProvidedContext(state), children) IN
          /\ Renders(data) <=> state.data # Undefined
          /\ Renders(error) <=> state.error # Undefined
          /\ data.out # "throw" /\ error.out # "throw"
          /\ data.out = "function" => data.given = <<state.data, state>>
          /\ error.out = "function" => error.given = <<state.error, state>>
    /\ (/\ mounted /\ Queued({"message"}) = <<>> /\ LiveCalls({"message"}) # <<>>
        /\ ExpectedData(LastMessage.arg) # Undefined) =>
          Data(ProvidedContext(state), "function").given[1] = ExpectedData(LastMessage.arg)
    /\ (/\ mounted /\ Queued({"message", "error"}) = <<>>
        /\ LiveCalls({"message", "error"}) # <<>>
        /\ LastOf(LiveCalls({"message", "error"})).op = "error"
        /\ LastOf(LiveCalls({"message", "error"})).arg # Undefined) =>
          Error(ProvidedContext(state), "function").given[1]
              = LastOf(LiveCalls({"message", "error"})).arg

\* Two messages: Data hands over the second.
C15_Witness ==
    /\ mounted /\ props.parser
    /\ DataOf(state.messages) = <<"foo", "bar">>
    /\ Data(ProvidedContext(state), "function").given[1] = "bar"
    /\ ~Renders(Error(ProvidedContext(state), "function"))

\* C16 as claimed: outside any <WebWorker> a helper reads an empty default
\* state and does not fail: Pending shows its content, Data and Error show
\* nothing. It fails: createContext() at index.js:127 names no default, the
\* Consumer is given undefined and reading state.data throws a TypeError.
C16_HelpersOutsideReadDefault ==
    /\ outside.returned.out # "throw"
    /\ outside.helper = "Pending" /\ outside.children \in Content => Renders(outside.returned)
    /\ outside.helper \in {"Data", "Error"} => outside.returned = Null

-----------------------------------------------------------------------------
\* The handle is a Service Worker: one given as such, or a container's controller.
ServiceWorkerHandle == ~props.url /\ props.worker \in {"ServiceWorker", "Container"}
SendStep == Len(log') = Len(log) + 1 /\ LastOf(log').op = "send"

\* C17: a send to an attached Service Worker whose state is set and is not
\* "activated" returns normally, dispatches nothing, queues nothing and
\* leaves the state, lastPostAt included, as it was; a send while the state is
\* "activated" or absent is taken up and, outside a batch, dispatched to the
\* handle at once with lastPostAt set.
C17_InactiveSendsIgnored ==
    [][(SendStep /\ worker # Undefined /\ ServiceWorkerHandle) =>
          /\ LastOf(log').threw = NoError
          /\ IF swState \notin {Undefined, "activated"}
             THEN UNCHANGED <<state, queue, posted, callbacks>>
             ELSE lifecycle = "mounted" =>
                    IF batching
                    THEN /\ queue' = Append(queue, [kind |-> "post", value |-> LastOf(log').arg,
                                                    date |-> now])
                         /\ UNCHANGED <<state, posted>>
                    ELSE /\ Len(posted') = Len(posted) + 1
                         /\ LastOf(posted').to = worker
                         /\ LastOf(posted').payload = ExpectedPayload(LastOf(log').arg)
                         /\ state'.lastPostAt = now]_vars

\* A container's controller: a send ignored while installing, the next one
\* dispatched once it is activated.
C17_Witness ==
    /\ lifecycle = "mounted" /\ props.worker = "Container" /\ swState = "activated"
    /\ Len(log) = 3
    /\ log[2].op = "send" /\ log[2].arg = "foo" /\ log[2].sw = "installing"
    /\ log[2].threw = NoError
    /\ log[3].op = "send" /\ log[3].arg = "bar" /\ log[3].sw = "activated"
    /\ PayloadsOf(posted) = <<ExpectedPayload("bar")>>
    /\ state.lastPostAt = log[3].at

-----------------------------------------------------------------------------
\* C18 as claimed: with props.worker given, attaching constructs no handle
\* and the handle bound and sent to is the one given (for a container, its
\* controller), also when props.url is given as well. It fails for url
\* together with worker: index.js:178 looks at url first.
C18_SuppliedWorkerUsed ==
    (props.worker # "none" /\ lifecycle \in {"mounted", "unmounted"}) =>
        /\ constructed = <<>>
        /\ worker \in {"custom", "controller"}
        /\ \A i \in DOMAIN posted : posted[i].to \in {"custom", "controller"}

\* C19: a component with props.url has constructed no handle before it is
\* mounted and exactly one from then on, by new Worker(url, options) with the
\* options of its props, whatever messages, errors, sends, re-renders and
\* the unmount have followed.
C19_OneHandleConstructedAtMount ==
    props.url =>
        /\ lifecycle = "constructed" => constructed = <<>> /\ worker = Undefined
        /\ lifecycle # "constructed" =>
              /\ lifecycle \in {"mounted", "unmounted"}
              /\ constructed = <<[url |-> "/worker.js", options |-> props.options]>>
              /\ worker = "internal"

\* Mounted with options, a message, a send, a re-render, unmounted: one handle.
C19_Witness ==
    /\ lifecycle = "unmounted" /\ props.url /\ props.options = OptionsObject
    /\ props.someProp
    /\ Len(state.messages) = 1 /\ Len(posted) = 1
    /\ constructed = <<[url |-> "/worker.js", options |-> OptionsObject]>>

\* C20: a re-render for a change of an unrelated prop leaves the value given
\* to the Provider the same object, this.state, and the state untouched.
C20_RerenderKeepsPublishedValue ==
    [][props' # props =>
          /\ published' = published
          /\ published' = StateObject(state, posted)
          /\ UNCHANGED <<state, queue, posted, callbacks, log>>]_vars

\* A message and a send committed, then a re-render: the Provider still
\* holds the state object of the last commit.
C20_Witness ==
    /\ lifecycle = "mounted" /\ props.someProp
    /\ Len(state.messages) = 1 /\ Len(posted) = 1
    /\ published = 2

-----------------------------------------------------------------------------
CallsOf(op) == {i \in DOMAIN log : log[i].op = op}

\* C21: an instance goes from unattached to attached to torn down and stays
\* there: componentDidMount has run at most once and never after
\* componentWillUnmount, the instance is active exactly while it is attached,
\* and once componentWillUnmount has run it is torn down for good.
C21_TornDownIsTerminal ==
    LET mounts == CallsOf("mount")
        unmounts == CallsOf("unmount")
    IN
    /\ Cardinality(mounts) <= 1
    /\ Cardinality(unmounts) <= 1
    /\ \A i \in mounts, j \in unmounts : i < j
    /\ mounted <=> lifecycle = "mounted"
    /\ lifecycle = "unmounted" <=> unmounts # {}
    /\ lifecycle = "constructed" <=> mounts = {}
    /\ lifecycle = "mounted" => \E i \in mounts : log[i].threw = NoError

\* Torn down, then a message and a send: still torn down.
C21_Witness ==
    /\ lifecycle = "unmounted" /\ ~mounted
    /\ Len(log) = 4
    /\ log[1].op = "mount" /\ log[1].threw = NoError
    /\ log[2].op = "unmount"
    /\ log[3].op = "message" /\ log[4].op = "send"

-----------------------------------------------------------------------------
IsPrefix(s, t) == Len(s) <= Len(t) /\ s = SubSeq(t, 1, Len(s))

\* C22: in every step, be it a message, an error, a send, the end of a
\* batch, a re-render or the unmount, messages and errors keep every entry
\* they had, in place and unchanged: the old list is a prefix of the new.
C22_ListsAppendOnly ==
    [][/\ IsPrefix(state.messages, state'.messages)
       /\ IsPrefix(state.errors, state'.errors)]_vars

\* Both lists have grown, a re-render and the unmount have followed.
C22_Witness ==
    /\ lifecycle = "unmounted" /\ props.someProp
    /\ Len(state.messages) = 1 /\ Len(state.errors) = 1

DatesOf(entries) == [i \in 1..Len(entries) |-> entries[i].date]
TimesOf(calls) == [i \in 1..Len(calls) |-> calls[i].at]

\* The entry an event has added to its own list, if its update has been
\* committed: the k-th message delivered while attached is messages[k], the
\* k-th error is errors[k].
RankOf(events, n) == Cardinality({m \in 1..n : events[m].op = events[n].op})
RecordedIn(s, events, n) ==
    RankOf(events, n) <= Len(IF events[n].op = "message" THEN s.messages ELSE s.errors)
StampOf(s, events, n) ==
    IF events[n].op = "message"
    THEN s.messages[RankOf(events, n)].date
    ELSE s.errors[RankOf(events, n)].date

\* C23 as claimed: every event delivered while attached has one entry in its
\* own list or one update in the queue, and over both lists the timestamps of
\* the entries never decrease in delivery order.
C23_StampsNeverDecrease ==
    LET events == LiveCalls({"message", "error"})
    IN
    /\ mounted =>
          /\ Len(state.messages) + Len(Queued({"message"})) = Len(LiveCalls({"message"}))
          /\ Len(state.errors) + Len(Queued({"error"})) = Len(LiveCalls({"error"}))
    /\ \A m, n \in DOMAIN events :
          (m < n /\ RecordedIn(state, events, m) /\ RecordedIn(state, events, n))
              => StampOf(state, events, m) <= StampOf(state, events, n)

\* C23: however messages and errors interleave and however many are
\* delivered before a commit, every event delivered while attached adds
\* exactly one entry to its own list, in the order delivered, stamped with
\* what the clock read at its delivery (the events of a batch are queued in
\* that order until the commit; the lists of a torn-down instance hold the
\* first of the events delivered, those its last batch had queued being
\* dropped).  The stamps over both lists therefore never decrease in delivery
\* order in a run in which the clock was not set back between deliveries.
C23_OneEntryPerEventInOrder ==
    LET events == LiveCalls({"message", "error"})
        queued == Queued({"message", "error"})
        IsMessage(e) == e.op = "message"
        IsError(e) == e.op = "error"
        IsMessageUpdate(u) == u.kind = "message"
        IsErrorUpdate(u) == u.kind = "error"
        DatesOfUpdates(updates) == [i \in 1..Len(updates) |-> updates[i].date]
    IN
    /\ mounted =>
        /\ DatesOf(state.messages) \o DatesOfUpdates(SelectSeq(queued, IsMessageUpdate))
              = TimesOf(SelectSeq(events, IsMessage))
        /\ DatesOf(state.errors) \o DatesOfUpdates(SelectSeq(queued, IsErrorUpdate))
              = TimesOf(SelectSeq(events, IsError))
        /\ DatesOfUpdates(queued) = TimesOf(SubSeq(events, Len(events) - Len(queued) + 1,
                                                   Len(events)))
    /\ IsPrefix(DatesOf(state.messages), TimesOf(SelectSeq(events, IsMessage)))
    /\ IsPrefix(DatesOf(state.errors), TimesOf(SelectSeq(events, IsError)))
    /\ (\A i \in 1..(Len(events) - 1) : events[i].at <= events[i + 1].at) =>
          /\ \A m, n \in DOMAIN events :
                (m < n /\ RecordedIn(state, events, m) /\ RecordedIn(state, events, n))
                    => StampOf(state, events, m) <= StampOf(state, events, n)
          /\ \A i \in DOMAIN state.messages : state.messages[i].date <= state.updatedAt
          /\ \A j \in DOMAIN state.errors : state.errors[j].date <= state.updatedAt

\* An error at time 1, a message at time 2 and, the clock set back, a message
\* at time 1: the later entry of messages has the earlier stamp.
C23_Witness ==
    /\ mounted /\ ~batching
    /\ Len(log) = 4
    /\ log[2].op = "error" /\ log[3].op = "message" /\ log[4].op = "message"
    /\ DatesOf(state.errors) = <<1>>
    /\ DatesOf(state.messages) = <<2, 1>>
    /\ state.updatedAt = 1

-----------------------------------------------------------------------------
AllEmptyOrAbsent(s) ==
    /\ s.messages = <<>> /\ s.errors = <<>>
    /\ s.data = Undefined /\ s.error = Undefined
    /\ s.updatedAt = NoDate /\ s.lastPostAt = NoDate

\* C24: until the instance is attached, and when it has just been attached
\* (no event or send since), messages and errors are empty and data, error,
\* updatedAt and lastPostAt are absent, whatever was called before the attach.
C24_InitialStateAtAttach ==
    /\ lifecycle \in {"constructed", "failed"} => AllEmptyOrAbsent(state) /\ queue = <<>>
    /\ (lifecycle = "mounted" /\ LiveCalls(Ops) = <<>>) => AllEmptyOrAbsent(state) /\ queue = <<>>

\* Two sends before the attach, both thrown back, then the attach.
C24_Witness ==
    /\ lifecycle = "mounted"
    /\ Len(log) = 3
    /\ log[1].op = "send" /\ log[1].threw = NotInitialized
    /\ log[2].op = "send" /\ log[2].threw = NotInitialized
    /\ log[3].op = "mount"
    /\ AllEmptyOrAbsent(state)

\* What a step has committed: dispatches of sends, entries of events.
PostsCommitted == Len(posted') - Len(posted)
EventsCommitted ==
    (Len(state'.messages) + Len(state'.errors)) - (Len(state.messages) + Len(state.errors))

\* C25: the state changes only in a step that is a message, an error or a
\* send on the attached instance, or the end of a batch of them; a step that
\* commits no message and no error changes nothing but lastPostAt, a step
\* that commits no send leaves lastPostAt alone, and a re-render changes
\* nothing of the state.
C25_OnlyHandlersAndSendMutate ==
    [][/\ state' # state =>
            \/ /\ Len(log') = Len(log) + 1
               /\ LastOf(log').op \in Ops /\ LastOf(log').live /\ ~batching
            \/ batching /\ ~batching' /\ queue # <<>> /\ log' = log
       /\ EventsCommitted = 0 => [state' EXCEPT !.lastPostAt = state.lastPostAt] = state
       /\ PostsCommitted = 0 => state'.lastPostAt = state.lastPostAt
       /\ props' # props => state' = state /\ queue' = queue]_vars

\* A message, then a send at a later time, then a re-render: the send has
\* set lastPostAt and left updatedAt at the time of the message.
C25_Witness ==
    /\ lifecycle = "mounted" /\ props.someProp
    /\ Len(state.messages) = 1
    /\ state.updatedAt = 1 /\ state.lastPostAt = 2

-----------------------------------------------------------------------------
\* C26: data is the data of the last entry of messages, absent when there
\* is none; when error is present, errors is not empty, error is the error
\* of its last entry and updatedAt is that entry's date; updatedAt is absent
\* exactly when both lists are empty.
C26_SummaryAgreesWithLists ==
    /\ state.data = IF state.messages = <<>> THEN Undefined ELSE LastOf(state.messages).data
    /\ state.error # Undefined =>
          /\ state.errors # <<>>
          /\ state.error = LastOf(state.errors).error
          /\ state.updatedAt = LastOf(state.errors).date
    /\ state.updatedAt = NoDate <=> state.messages = <<>> /\ state.errors = <<>>

\* A message at time 1, an error at time 2.
C26_Witness ==
    /\ DataOf(state.messages) = <<"foo">> /\ DatesOf(state.messages) = <<1>>
    /\ ErrorsOf(state.errors) = <<"oops">> /\ DatesOf(state.errors) = <<2>>
    /\ state.data = "foo" /\ state.error = "oops" /\ state.updatedAt = 2

PendingRenders(children) == Renders(Pending(ProvidedContext(state), FALSE, children))
DataRenders(children) == Renders(Data(ProvidedContext(state), children))
ErrorRenders(children) == Renders(Error(ProvidedContext(state), children))

\* C27: under the component, given content and without persist, in every
\* state at least one of Pending, Data and Error shows, and Pending shows
\* neither with Data nor with Error. (That Data and Error can show together
\* is the state of C27_Witness.)
C27_HelpersCoverEveryState ==
    \A children \in Content :
        LET pending == PendingRenders(children)
            data == DataRenders(children)
            error == ErrorRenders(children)
        IN /\ pending \/ data \/ error
           /\ ~(pending /\ data)
           /\ ~(pending /\ error)

\* An error after a message: Data and Error both show, Pending does not.
C27_Witness ==
    /\ lifecycle = "mounted"
    /\ Len(log) = 3 /\ log[2].op = "message" /\ log[3].op = "error"
    /\ \A children \in Content :
          DataRenders(children) /\ ErrorRenders(children) /\ ~PendingRenders(children)

-----------------------------------------------------------------------------
\* C28: once the instance is torn down nothing that is called on it has an
\* effect: no step changes the state (lastPostAt included), queues an
\* update, dispatches to the handle, notifies a callback, terminates or
\* constructs a handle, or brings the instance back.
C28_NoEffectAfterTeardown ==
    [][lifecycle = "unmounted" =>
          UNCHANGED <<state, queue, posted, callbacks, terminated, constructed, channels,
                      worker, handlers, published, lifecycle, mounted>>]_vars

\* A send dispatched while attached, the unmount, a later send that returns
\* normally: one dispatch, lastPostAt still the time of the first send.
C28_Witness ==
    /\ lifecycle = "unmounted"
    /\ Len(log) = 4
    /\ log[2].op = "send" /\ log[2].live /\ log[2].at = 1
    /\ log[3].op = "unmount"
    /\ log[4].op = "send" /\ ~log[4].live /\ log[4].at = 2 /\ log[4].threw = NoError
    /\ Len(posted) = 1
    /\ state.lastPostAt = 1

\* C29 as claimed: once no batch is open, the handle has been given the
\* serialized payload of every accepted send, in the order of the calls, each
\* exactly once, with lastPostAt present at each dispatch.
C29_EverySendDispatchedOnce ==
    ~batching =>
        /\ PayloadsOf(posted) = ExpectedPayloads(AcceptedSends)
        /\ \A i \in DOMAIN posted : posted[i].lastPostAt # NoDate

\* C29: whatever messages and errors come among the sends, the handle has
\* been given the serialized payloads of the first of the accepted sends, in
\* the order of the calls, each once and none skipped; every dispatch went to
\* the attached handle, with lastPostAt present and equal to the time of its
\* own send or of a later one.  While the instance is attached the sends not
\* yet dispatched are exactly those queued in the open batch, in call order,
\* so that with no batch open every accepted send has been dispatched exactly
\* once; the sends a batch had queued when the instance was torn down are
\* the only ones never dispatched.
C29_DispatchFirstInFirstOut ==
    /\ \A i \in DOMAIN posted : posted[i].lastPostAt # NoDate /\ posted[i].to = worker
    /\ IsPrefix(PayloadsOf(posted), ExpectedPayloads(AcceptedSends))
    /\ \A i \in DOMAIN posted :
          \E j \in i..Len(AcceptedSends) : posted[i].lastPostAt = AcceptedSends[j].at
    /\ mounted =>
          /\ Len(posted) + Len(Queued({"post"})) = Len(AcceptedSends)
          /\ \A i \in DOMAIN Queued({"post"}) :
                Queued({"post"})[i].value = AcceptedSends[Len(posted) + i].arg
    /\ (mounted /\ ~batching) => PayloadsOf(posted) = ExpectedPayloads(AcceptedSends)

\* A send, then a message or an error, then another send, the clock having
\* advanced: both payloads dispatched, serialized, in call order, each with
\* the lastPostAt of its own send.
C29_Witness ==
    /\ mounted /\ ~batching /\ props.serializer
    /\ Len(log) = 4
    /\ log[2].op = "send" /\ log[2].arg = "bar" /\ log[2].at = 1
    /\ log[3].op \in {"message", "error"}
    /\ log[4].op = "send" /\ log[4].arg = "foo" /\ log[4].at = 2
    /\ PayloadsOf(posted) = <<JSONstringify("bar"), JSONstringify("foo")>>
    /\ posted[1].lastPostAt = 1 /\ posted[2].lastPostAt = 2

-----------------------------------------------------------------------------
\* The events of one kind among those given, and what an instance has
\* recorded of them.
FiredOf(kind, events) == SelectSeq(events, LAMBDA e : e.kind = kind)
ExpectedRecord(events) ==
    [messages |-> [k \in 1..Len(FiredOf("message", events)) |->
                     ExpectedData(FiredOf("message", events)[k].value)],
     errors |-> [k \in 1..Len(FiredOf("error", events)) |->
                     FiredOf("error", events)[k].value]]
RecordOf(i) ==
    [messages |-> DataOf(shared.instances[i].state.messages),
     errors |-> ErrorsOf(shared.instances[i].state.errors)]

\* C30 as claimed: of two instances given the same worker with event slots,
\* each one that is attached has recorded every message and error the worker
\* fired while it was attached. It fails: index.js:181-182 assign the
\* handlers to the worker's slots, so the second attach takes them over.
C30_EveryAttachedInstanceReceives ==
    \A i \in Instances :
        shared.instances[i].lifecycle = "mounted" =>
            RecordOf(i) = ExpectedRecord(SelectSeq(shared.fired, LAMBDA e : i \in e.attached))

\* C30, amended: the worker's slots hold the handlers of the instance that
\* attached last, so an instance has recorded exactly the events fired while
\* it was attached and the last to have attached; an instance that attached
\* earlier gets none from then on, also after the later one is torn down.
C30_LastAttachedInstanceReceives ==
    /\ shared.onmessage = shared.onerror
    /\ shared.onmessage = IF shared.order = <<>> THEN NoInstance ELSE LastOf(shared.order)
    /\ \A i \in Instances :
          RecordOf(i) = ExpectedRecord(SelectSeq(shared.fired,
                             LAMBDA e : i \in e.attached /\ e.latest = i))

\* Both attached, a message goes to the second; the second torn down, an
\* error goes to nobody: the first, still attached, has recorded nothing.
C30_Witness ==
    /\ shared.order = <<1, 2>>
    /\ shared.instances[1].lifecycle = "mounted"
    /\ shared.instances[2].lifecycle = "unmounted"
    /\ Len(shared.fired) = 2
    /\ shared.fired[1].kind = "message" /\ shared.fired[1].attached = {1, 2}
    /\ shared.fired[2].kind = "error" /\ shared.fired[2].attached = {1}
    /\ Len(shared.instances[2].state.messages) = 1
    /\ shared.instances[2].state.errors = <<>>
    /\ shared.instances[1].state = getInitialState
====
